---- MODULE Spec2Model ----
(***************************************************************************)
(* woltui: the interactive session of src/app.rs (run_app and App), the    *)
(* state machine of src/states.rs and the persisted configuration of       *)
(* src/app/config.rs.                                                      *)
(*                                                                         *)
(* Strings are sequences of one-character strings.  An Instant is kept as  *)
(* its age (the time elapsed since it was taken), in clock units; an age   *)
(* stops growing once it is past every threshold the code compares it to.  *)
(* An Option is <<>> (None) or <<v>> (Some(v)).                            *)
(***************************************************************************)
EXTENDS Integers, Sequences, FiniteSets, TLC

VARIABLES
    state_machine,  \* App.state_machine: the sm variant, [state, via]
    items,          \* App.machines.items: sequence of <<name, mac>>
    selected,       \* App.machines.state.selected(): <<>> or <<index>>, 0-based
    textarea,       \* App.textarea.lines()[0]
    editing_name,   \* App.editing_name
    editing_mac,    \* App.editing_mac
    popup_time,     \* App.popup_time: <<>> or <<age>>
    last_tick,      \* run_app's last_tick, as its age
    file,           \* the machines persisted in ~/.wol/config
    arm,            \* the arm of run_app's match taken in this iteration, "" if none
    wol,            \* the addresses given to wol::send_wol in this iteration
    pc,             \* position in the loop of run_app: "poll" or "tick"
    run,            \* "running", "returned" (run_app returned Ok) or "panicked"
    flow            \* history of the add flow in progress: store at 'a', texts committed

vars == <<state_machine, items, selected, textarea, editing_name, editing_mac,
          popup_time, last_tick, file, arm, wol, pc, run, flow>>

-----------------------------------------------------------------------------
(* Bounds of the model *)

\* 'a' is accepted only while the store holds fewer entries than this
MaxItems == 2
\* clock units in one second
UnitsPerSecond == 2

-----------------------------------------------------------------------------
(* Program constants *)

\* Duration::from_secs(1) in on_tick
PopupSecs == 1
\* [0-9A-Fa-f]{2}
HexPairLen == 2
\* (...[:-]){5}
SepGroups == 5
\* tick_rate, the parameter of run_app, in clock units
tick_rate == 1

PopupDuration == PopupSecs * UnitsPerSecond

-----------------------------------------------------------------------------
(* Texts *)

Min(a, b) == IF a < b THEN a ELSE b

HexDigits == {"0", "1", "2", "3", "4", "5", "6", "7", "8", "9",
              "A", "B", "C", "D", "E", "F", "a", "b", "c", "d", "e", "f"}

Separators == {":", "-"}

\* mac_regex.is_match: ^([0-9A-Fa-f]{2}[:-]){5}([0-9A-Fa-f]{2})$
mac_regex_is_match(s) ==
    /\ Len(s) = SepGroups * (HexPairLen + 1) + HexPairLen
    /\ \A i \in 1..Len(s) :
          IF i <= SepGroups * (HexPairLen + 1) /\ i % (HexPairLen + 1) = 0
          THEN s[i] \in Separators
          ELSE s[i] \in HexDigits

Prefixes(s) == {SubSeq(s, 1, n) : n \in 0..Len(s)}

\* the texts a user commits with Enter in the name field
NameTexts == { <<"q">>, <<>> }

Mac1 == <<"a","a",":","d","d",":","a","a",":","d","d",":","a","a",":","d","d">>

\* the same groups with the last separator a hyphen
MacMixed == <<"a","a",":","d","d",":","a","a",":","d","d",":","a","a","-","d","d">>

\* five groups only
MacShort == <<"a","a",":","d","d",":","a","a",":","d","d",":","a","a">>

\* the texts a user commits with Enter in the address field
MacTexts == { Mac1, MacMixed, MacShort, <<"q">>, <<>> }

Typable(texts) == UNION {Prefixes(t) : t \in texts}

Chars == {"q", "a", "d", "Y", "y", "n", "N", ":", "-"}

Key(code, c) == [code |-> code, c |-> c]

Keys == {Key(code, "") : code \in {"Enter", "Esc", "Up", "Down", "Backspace"}}
        \cup {Key("Char", c) : c \in Chars}

\* TextArea::default()
TextAreaDefault == <<>>

\* TextArea::input, on the single line, with the cursor at its end
TextAreaInput(text, k) ==
    CASE k.code = "Char" -> Append(text, k.c)
      [] k.code = "Backspace" ->
            IF text = <<>> THEN text ELSE SubSeq(text, 1, Len(text) - 1)
      [] OTHER -> text

-----------------------------------------------------------------------------
(* The state machine of states.rs *)

AppSM ==
    { <<"Add", "Main", "NameInput">>,
      <<"Delete", "Main", "ConfirmDelete">>,
      <<"Send", "Main", "SendPop">>,
      <<"Cancel", "NameInput", "Main">>,
      <<"Cancel", "MacInput", "Main">>,
      <<"Cancel", "ConfirmAdd", "Main">>,
      <<"Cancel", "ConfirmDelete", "Main">>,
      <<"Exit", "Main", "Exited">>,
      <<"Next", "NameInput", "MacInput">>,
      <<"Next", "MacInput", "ConfirmAdd">>,
      <<"Next", "ConfirmAdd", "Main">>,
      <<"Next", "ConfirmDelete", "Main">>,
      <<"Next", "SendPop", "Main">> }

\* Machine::new(Main).as_enum(): the variant InitialMain
InitialMain == [state |-> "Main", via |-> "Initial"]

\* m.transition(e).as_enum(): the variant <To>By<e>
transition(m, e) ==
    LET t == CHOOSE r \in AppSM : r[1] = e /\ r[2] = m.state
    IN  [state |-> t[3], via |-> e]

\* the variants InitialMain, MainByCancel and MainByNext
IsMain(m) == m.state = "Main" /\ m.via \in {"Initial", "Cancel", "Next"}

Variants == {InitialMain} \cup {[state |-> t[3], via |-> t[1]] : t \in AppSM}

-----------------------------------------------------------------------------
(* StatefulList: the list of machines and its cursor *)

\* StatefulList::with_items: the cursors the list may start with
with_items(its) ==
    IF its = <<>> THEN { <<>> } ELSE { <<i>> : i \in 0..(Len(its) - 1) }

\* StatefulList::next: one row down, stopping at the last row
next(sel, its) ==
    IF its = <<>> THEN sel
    ELSE IF sel = <<>> THEN <<0>>
    ELSE IF sel[1] + 1 < Len(its) THEN <<sel[1] + 1>>
    ELSE sel

\* StatefulList::previous: one row up, stopping at the first row
previous(sel, its) ==
    IF its = <<>> THEN sel
    ELSE IF sel = <<>> THEN <<0>>
    ELSE IF sel[1] > 0 THEN <<sel[1] - 1>>
    ELSE sel

\* Vec::push
push(its, e) == Append(its, e)

\* Vec::remove(index), for index < len
remove(its, index) ==
    SubSeq(its, 1, index) \o SubSeq(its, index + 2, Len(its))

\* selected.unwrap_or_default()
unwrap_or_default(sel) == IF sel = <<>> THEN 0 ELSE sel[1]

-----------------------------------------------------------------------------
(* Startup: App::new and load_machines *)

Entry1 == << <<"q">>, Mac1 >>

Entry2 == << <<>>, Mac1 >>

\* the machines ~/.wol/config may hold when the program starts
InitialStores == { <<>>, <<Entry1>>, <<Entry1, Entry2>> }

NoFlow == [L |-> <<>>, name |-> <<>>, mac |-> <<>>]

Init ==
    /\ file \in InitialStores
    /\ items = file
    /\ selected \in with_items(items)
    /\ state_machine = InitialMain
    /\ textarea = TextAreaDefault
    /\ editing_name = <<>>
    /\ editing_mac = <<>>
    /\ popup_time = <<>>
    /\ last_tick = 0
    /\ arm = ""
    /\ wol = <<>>
    /\ pc = "poll"
    /\ run = "running"
    /\ flow = NoFlow

-----------------------------------------------------------------------------
(* App's methods *)

\* add_machine inserting the new machine before the others
add_machine_front(its, name, mac) == << <<name, mac>> >> \o its

\* App::add_machine: the list after the push
add_machine(its, name, mac) == push(its, <<name, mac>>)

\* App::delete_machine: the list after the removal
delete_machine(its, index) == remove(its, index)

\* App::save_machines and write_config: the file holds every machine of the list
save_machines(its) == its

\* popup_time.elapsed() > Duration::from_secs(1)
popup_elapsed(age) == age > PopupDuration

\* last_tick.elapsed() >= tick_rate
tick_due == last_tick >= tick_rate

\* ui: the confirmation and notification frames index items[selected]
ui_panics ==
    /\ state_machine.state \in {"ConfirmDelete", "SendPop"}
    /\ unwrap_or_default(selected) >= Len(items)

-----------------------------------------------------------------------------
(* run_app: one key press read by the loop *)

\* terminal.draw succeeded and crossterm::event::poll returned
Polled ==
    /\ run = "running"
    /\ pc = "poll"
    /\ ~ui_panics
    /\ UNCHANGED last_tick

\* event::read returned a key press and the match took arm a
Arm(a) ==
    /\ Polled
    /\ arm' = a
    /\ pc' = "tick"

\* a confirmation that takes 'y' as well as 'Y'
IsConfirmKeyAnyCase(k) == k \in {Key("Char", "Y"), Key("Char", "y")}

\* KeyCode::Char('Y')
IsConfirmKey(k) == k = Key("Char", "Y")

\* KeyCode::Char('n') | KeyCode::Char('N') | KeyCode::Esc
IsDeclineKey(k) == k \in {Key("Char", "n"), Key("Char", "N"), Key("Esc", "")}

\* (input, NameInputByAdd(m)), KeyCode::Enter
NameInputEnter(k) ==
    /\ Arm("NameInputEnter")
    /\ state_machine.state = "NameInput"
    /\ k.code = "Enter"
    /\ textarea \in NameTexts
    /\ editing_name' = textarea
    /\ textarea' = TextAreaDefault
    /\ state_machine' = transition(state_machine, "Next")
    /\ flow' = [flow EXCEPT !.name = textarea]
    /\ wol' = <<>>
    /\ UNCHANGED <<items, selected, editing_mac, popup_time, file, run>>

\* (input, NameInputByAdd(m)), KeyCode::Esc
NameInputEsc(k) ==
    /\ Arm("NameInputEsc")
    /\ state_machine.state = "NameInput"
    /\ k.code = "Esc"
    /\ textarea' = TextAreaDefault
    /\ state_machine' = transition(state_machine, "Cancel")
    /\ flow' = NoFlow
    /\ wol' = <<>>
    /\ UNCHANGED <<items, selected, editing_name, editing_mac, popup_time, file, run>>

\* (input, NameInputByAdd(m)), any other key: app.textarea.input(input)
NameInputOther(k) ==
    /\ Arm("NameInputOther")
    /\ state_machine.state = "NameInput"
    /\ k.code \notin {"Enter", "Esc"}
    /\ TextAreaInput(textarea, k) \in Typable(NameTexts)
    /\ textarea' = TextAreaInput(textarea, k)
    /\ wol' = <<>>
    /\ UNCHANGED <<state_machine, items, selected, editing_name, editing_mac,
                   popup_time, file, run, flow>>

\* the body of the Enter arm of MacInput: the line is stored, then tested
MacInputCommit ==
    /\ Arm("MacInputEnter")
    /\ state_machine.state = "MacInput"
    /\ editing_mac' = textarea
    /\ IF mac_regex_is_match(textarea)
       THEN /\ textarea' = TextAreaDefault
            /\ state_machine' = transition(state_machine, "Next")
            /\ flow' = [flow EXCEPT !.mac = textarea]
       ELSE UNCHANGED <<textarea, state_machine, flow>>
    /\ wol' = <<>>
    /\ UNCHANGED <<items, selected, editing_name, popup_time, file, run>>

\* (input, MacInputByNext(m)), KeyCode::Enter
MacInputEnter(k) ==
    /\ k.code = "Enter"
    /\ textarea \in MacTexts
    /\ MacInputCommit

\* Esc in MacInput leaving the text area as it is
MacInputEsc_keeps_textarea(k) ==
    /\ Arm("MacInputEsc")
    /\ state_machine.state = "MacInput"
    /\ k.code = "Esc"
    /\ state_machine' = transition(state_machine, "Cancel")
    /\ flow' = NoFlow
    /\ wol' = <<>>
    /\ UNCHANGED <<items, selected, textarea, editing_name, editing_mac, popup_time,
                   file, run>>

\* (input, MacInputByNext(m)), KeyCode::Esc
MacInputEsc(k) ==
    /\ Arm("MacInputEsc")
    /\ state_machine.state = "MacInput"
    /\ k.code = "Esc"
    /\ textarea' = TextAreaDefault
    /\ state_machine' = transition(state_machine, "Cancel")
    /\ flow' = NoFlow
    /\ wol' = <<>>
    /\ UNCHANGED <<items, selected, editing_name, editing_mac, popup_time, file, run>>

\* (input, MacInputByNext(m)), any other key: app.textarea.input(input)
MacInputOther(k) ==
    /\ Arm("MacInputOther")
    /\ state_machine.state = "MacInput"
    /\ k.code \notin {"Enter", "Esc"}
    /\ TextAreaInput(textarea, k) \in Typable(MacTexts)
    /\ textarea' = TextAreaInput(textarea, k)
    /\ wol' = <<>>
    /\ UNCHANGED <<state_machine, items, selected, editing_name, editing_mac,
                   popup_time, file, run, flow>>

\* (KeyCode::Char('q'), InitialMain | MainByCancel | MainByNext): return Ok(())
MainQuit(k) ==
    /\ Polled
    /\ IsMain(state_machine)
    /\ k = Key("Char", "q")
    /\ arm' = "MainQuit"
    /\ run' = "returned"
    /\ wol' = <<>>
    /\ UNCHANGED <<state_machine, items, selected, textarea, editing_name, editing_mac,
                   popup_time, file, pc, flow>>

\* (KeyCode::Down, ...): app.machines.next()
MainDown(k) ==
    /\ Arm("MainDown")
    /\ IsMain(state_machine)
    /\ k.code = "Down"
    /\ selected' = next(selected, items)
    /\ wol' = <<>>
    /\ UNCHANGED <<state_machine, items, textarea, editing_name, editing_mac,
                   popup_time, file, run, flow>>

\* (KeyCode::Up, ...): app.machines.previous()
MainUp(k) ==
    /\ Arm("MainUp")
    /\ IsMain(state_machine)
    /\ k.code = "Up"
    /\ selected' = previous(selected, items)
    /\ wol' = <<>>
    /\ UNCHANGED <<state_machine, items, textarea, editing_name, editing_mac,
                   popup_time, file, run, flow>>

\* (KeyCode::Enter, ...): send the packet to the selected machine
MainEnter(k) ==
    /\ Arm("MainEnter")
    /\ IsMain(state_machine)
    /\ k.code = "Enter"
    /\ IF selected # <<>>
       THEN IF selected[1] < Len(items)
            THEN /\ wol' = << items[selected[1] + 1][2] >>
                 /\ popup_time' = <<0>>
                 /\ state_machine' = transition(state_machine, "Send")
                 /\ run' = run
            ELSE \* app.machines.items[selected] is out of bounds
                 /\ run' = "panicked"
                 /\ wol' = <<>>
                 /\ UNCHANGED <<popup_time, state_machine>>
       ELSE /\ wol' = <<>>
            /\ UNCHANGED <<popup_time, state_machine, run>>
    /\ UNCHANGED <<items, selected, textarea, editing_name, editing_mac, file, flow>>

\* (KeyCode::Char('a'), ...)
MainAdd(k) ==
    /\ Arm("MainAdd")
    /\ IsMain(state_machine)
    /\ k = Key("Char", "a")
    /\ Len(items) < MaxItems
    /\ state_machine' = transition(state_machine, "Add")
    /\ flow' = [L |-> items, name |-> <<>>, mac |-> <<>>]
    /\ wol' = <<>>
    /\ UNCHANGED <<items, selected, textarea, editing_name, editing_mac,
                   popup_time, file, run>>

\* 'd' accepted whether or not a row is selected
MainDelete_unguarded(k) ==
    /\ Arm("MainDelete")
    /\ IsMain(state_machine)
    /\ k = Key("Char", "d")
    /\ state_machine' = transition(state_machine, "Delete")
    /\ wol' = <<>>
    /\ UNCHANGED <<items, selected, textarea, editing_name, editing_mac,
                   popup_time, file, run, flow>>

\* (KeyCode::Char('d'), ...)
MainDelete(k) ==
    /\ Arm("MainDelete")
    /\ IsMain(state_machine)
    /\ k = Key("Char", "d")
    /\ IF selected # <<>>
       THEN state_machine' = transition(state_machine, "Delete")
       ELSE state_machine' = state_machine
    /\ wol' = <<>>
    /\ UNCHANGED <<items, selected, textarea, editing_name, editing_mac,
                   popup_time, file, run, flow>>

\* (KeyCode::Char('Y'), ConfirmAddByNext(m)), then app.add_machine
ConfirmAddYes(k) ==
    /\ Arm("ConfirmAddYes")
    /\ state_machine.state = "ConfirmAdd"
    /\ IsConfirmKey(k)
    /\ state_machine' = transition(state_machine, "Next")
    /\ items' = add_machine(items, editing_name, editing_mac)
    /\ file' = save_machines(items')
    /\ flow' = NoFlow
    /\ wol' = <<>>
    /\ UNCHANGED <<selected, textarea, editing_name, editing_mac, popup_time, run>>

\* a declined confirmation that adds the machine all the same
ConfirmAddNo_adds(k) ==
    /\ Arm("ConfirmAddNo")
    /\ state_machine.state = "ConfirmAdd"
    /\ IsDeclineKey(k)
    /\ state_machine' = transition(state_machine, "Cancel")
    /\ items' = add_machine(items, editing_name, editing_mac)
    /\ file' = save_machines(items')
    /\ flow' = NoFlow
    /\ wol' = <<>>
    /\ UNCHANGED <<selected, textarea, editing_name, editing_mac, popup_time, run>>

\* (KeyCode::Char('n') | Char('N') | Esc, ConfirmAddByNext(m))
ConfirmAddNo(k) ==
    /\ Arm("ConfirmAddNo")
    /\ state_machine.state = "ConfirmAdd"
    /\ IsDeclineKey(k)
    /\ state_machine' = transition(state_machine, "Cancel")
    /\ flow' = NoFlow
    /\ wol' = <<>>
    /\ UNCHANGED <<items, selected, textarea, editing_name, editing_mac,
                   popup_time, file, run>>

\* 'Y' in ConfirmDelete deleting at the cursor read after previous()
ConfirmDeleteYes_after_previous(k) ==
    /\ Arm("ConfirmDeleteYes")
    /\ state_machine.state = "ConfirmDelete"
    /\ IsConfirmKey(k)
    /\ selected # <<>>
    /\ selected' = previous(selected, items)
    /\ state_machine' = transition(state_machine, "Next")
    /\ IF selected'[1] < Len(items)
       THEN /\ items' = delete_machine(items, selected'[1])
            /\ file' = save_machines(items')
            /\ run' = run
       ELSE /\ run' = "panicked"
            /\ UNCHANGED <<items, file>>
    /\ wol' = <<>>
    /\ UNCHANGED <<textarea, editing_name, editing_mac, popup_time, flow>>

\* (KeyCode::Char('Y'), ConfirmDeleteByDelete(m)), then app.delete_machine
ConfirmDeleteYes(k) ==
    /\ Arm("ConfirmDeleteYes")
    /\ state_machine.state = "ConfirmDelete"
    /\ IsConfirmKey(k)
    /\ selected # <<>>
    /\ selected' = previous(selected, items)
    /\ state_machine' = transition(state_machine, "Next")
    /\ IF selected[1] < Len(items)
       THEN /\ items' = delete_machine(items, selected[1])
            /\ file' = save_machines(items')
            /\ run' = run
       ELSE \* Vec::remove: the index is out of bounds
            /\ run' = "panicked"
            /\ UNCHANGED <<items, file>>
    /\ wol' = <<>>
    /\ UNCHANGED <<textarea, editing_name, editing_mac, popup_time, flow>>

\* (KeyCode::Char('n') | Char('N') | Esc, ConfirmDeleteByDelete(m))
ConfirmDeleteNo(k) ==
    /\ Arm("ConfirmDeleteNo")
    /\ state_machine.state = "ConfirmDelete"
    /\ IsDeclineKey(k)
    /\ state_machine' = transition(state_machine, "Cancel")
    /\ wol' = <<>>
    /\ UNCHANGED <<items, selected, textarea, editing_name, editing_mac,
                   popup_time, file, run, flow>>

\* the keys the arms of the last match name for a state
Matched(m, k) ==
    \/ IsMain(m) /\ \/ k.code \in {"Down", "Up", "Enter"}
                    \/ k \in {Key("Char", "q"), Key("Char", "a"), Key("Char", "d")}
    \/ m.state \in {"ConfirmAdd", "ConfirmDelete"} /\ (IsConfirmKey(k) \/ IsDeclineKey(k))

\* _ => None
KeyIgnored(k) ==
    /\ Arm("KeyIgnored")
    /\ state_machine.state \notin {"NameInput", "MacInput"}
    /\ ~Matched(state_machine, k)
    /\ wol' = <<>>
    /\ UNCHANGED <<state_machine, items, selected, textarea, editing_name, editing_mac,
                   popup_time, file, run, flow>>

\* the match on (key, &mut app.state_machine)
KeyPress(k) ==
    \/ NameInputEnter(k)
    \/ NameInputEsc(k)
    \/ NameInputOther(k)
    \/ MacInputEnter(k)
    \/ MacInputEsc(k)
    \/ MacInputOther(k)
    \/ MainQuit(k)
    \/ MainDown(k)
    \/ MainUp(k)
    \/ MainEnter(k)
    \/ MainAdd(k)
    \/ MainDelete(k)
    \/ ConfirmAddYes(k)
    \/ ConfirmAddNo(k)
    \/ ConfirmDeleteYes(k)
    \/ ConfirmDeleteNo(k)
    \/ KeyIgnored(k)

-----------------------------------------------------------------------------
(* run_app: the rest of the loop *)

\* an event that is no key press: nothing is routed
OtherEvent ==
    /\ Polled
    /\ arm' = ""
    /\ pc' = "tick"
    /\ wol' = <<>>
    /\ UNCHANGED <<state_machine, items, selected, textarea, editing_name, editing_mac,
                   popup_time, file, run, flow>>

\* crossterm::event::poll(timeout) returned false: tick_rate has passed since last_tick
PollTimeout ==
    /\ Polled
    /\ tick_due
    /\ arm' = ""
    /\ pc' = "tick"
    /\ wol' = <<>>
    /\ UNCHANGED <<state_machine, items, selected, textarea, editing_name, editing_mac,
                   popup_time, file, run, flow>>

\* terminal.draw: ui indexes items[selected] past the end
DrawPanic ==
    /\ run = "running"
    /\ pc = "poll"
    /\ ui_panics
    /\ run' = "panicked"
    /\ UNCHANGED <<state_machine, items, selected, textarea, editing_name, editing_mac,
                   popup_time, last_tick, file, arm, wol, pc, flow>>

\* on_tick leaving popup_time set when it leaves SendPop
on_tick_keeps_popup_time ==
    /\ popup_time' = popup_time
    /\ IF state_machine.state = "SendPop" /\ popup_time # <<>>
             /\ popup_elapsed(popup_time[1])
       THEN state_machine' = transition(state_machine, "Next")
       ELSE state_machine' = state_machine

\* App::on_tick
on_tick ==
    IF state_machine.state = "SendPop" /\ popup_time # <<>> /\ popup_elapsed(popup_time[1])
    THEN /\ popup_time' = <<>>
         /\ state_machine' = transition(state_machine, "Next")
    ELSE UNCHANGED <<popup_time, state_machine>>

\* if last_tick.elapsed() >= tick_rate { app.on_tick(); last_tick = Instant::now(); }
Tick ==
    /\ run = "running"
    /\ pc = "tick"
    /\ IF tick_due
       THEN on_tick /\ last_tick' = 0
       ELSE UNCHANGED <<popup_time, state_machine, last_tick>>
    /\ pc' = "poll"
    /\ arm' = ""
    /\ wol' = <<>>
    /\ UNCHANGED <<items, selected, textarea, editing_name, editing_mac, file, run, flow>>

\* one clock unit passes
AdvanceTime ==
    /\ run = "running"
    /\ last_tick' = Min(last_tick + 1, tick_rate)
    /\ popup_time' = IF popup_time = <<>> THEN <<>>
                     ELSE << Min(popup_time[1] + 1, PopupDuration + 1) >>
    /\ UNCHANGED <<state_machine, items, selected, textarea, editing_name, editing_mac,
                   file, arm, wol, pc, run, flow>>

Next ==
    \/ \E k \in Keys : KeyPress(k)
    \/ OtherEvent
    \/ PollTimeout
    \/ DrawPanic
    \/ Tick
    \/ AdvanceTime

Spec == Init /\ [][Next]_vars

\* the loop keeps running and time keeps passing
FairSpec ==
    /\ Spec
    /\ WF_vars((\E k \in Keys : KeyPress(k)) \/ OtherEvent \/ PollTimeout)
    /\ WF_vars(Tick)
    /\ WF_vars(AdvanceTime)

-----------------------------------------------------------------------------
(* run_app when persistence or dispatch fails *)

\* app.add_machine(..).expect("cannot add machine") when save_machines returns
\* Err before the file is written: the push stays and the expect panics
ConfirmAddYesSaveErr(k) ==
    /\ Arm("ConfirmAddYes")
    /\ state_machine.state = "ConfirmAdd"
    /\ IsConfirmKey(k)
    /\ state_machine' = transition(state_machine, "Next")
    /\ items' = add_machine(items, editing_name, editing_mac)
    /\ file' = file
    /\ run' = "panicked"
    /\ flow' = NoFlow
    /\ wol' = <<>>
    /\ UNCHANGED <<selected, textarea, editing_name, editing_mac, popup_time>>

\* app.delete_machine(index).expect("can not delete machine") when
\* save_machines returns Err before the file is written
ConfirmDeleteYesSaveErr(k) ==
    /\ Arm("ConfirmDeleteYes")
    /\ state_machine.state = "ConfirmDelete"
    /\ IsConfirmKey(k)
    /\ selected # <<>>
    /\ selected[1] < Len(items)
    /\ selected' = previous(selected, items)
    /\ state_machine' = transition(state_machine, "Next")
    /\ items' = delete_machine(items, selected[1])
    /\ file' = file
    /\ run' = "panicked"
    /\ wol' = <<>>
    /\ UNCHANGED <<textarea, editing_name, editing_mac, popup_time, flow>>

\* (KeyCode::Enter, ...) when MacAddr::from_str(..).unwrap() panics (nothing
\* was sent) or wol::send_wol(..).unwrap() panics (the call was made)
MainEnterSendErr(k) ==
    /\ Arm("MainEnter")
    /\ IsMain(state_machine)
    /\ k.code = "Enter"
    /\ selected # <<>>
    /\ selected[1] < Len(items)
    /\ wol' \in { <<>>, << items[selected[1] + 1][2] >> }
    /\ run' = "panicked"
    /\ UNCHANGED <<state_machine, items, selected, textarea, editing_name, editing_mac,
                   popup_time, file, flow>>

\* save_machines returned Err in this step
SaveFails == \E k \in Keys : ConfirmAddYesSaveErr(k) \/ ConfirmDeleteYesSaveErr(k)

\* the dispatch of the packet failed in this step
SendFails == \E k \in Keys : MainEnterSendErr(k)

IoNext ==
    \/ Next
    \/ SaveFails
    \/ SendFails

\* the session with persistence and dispatch free to fail
IoSpec == Init /\ [][IoNext]_vars

-----------------------------------------------------------------------------
(* mac_regex on the lines a user can have typed in the address field *)

RECURSIVE Join(_, _)
\* the groups written one after the other with the separators between them
Join(groups, seps) ==
    IF Len(groups) = 1 THEN groups[1]
    ELSE groups[1] \o <<seps[1]>> \o Join(Tail(groups), Tail(seps))

\* two hex digits in lower case, in upper case and digits, a pair with a
\* letter that is no hex digit, and a single digit
GroupTexts == { <<"a","a">>, <<"0","F">>, <<"q","1">>, <<"a">> }

\* five, six and seven groups
GroupCounts == {SepGroups, SepGroups + 1, SepGroups + 2}

\* lines of n groups, all <<"a","a">> except one, with every choice of
\* separators
AddressCandidates ==
    UNION { { Join([i \in 1..n |-> IF i = p THEN g ELSE <<"a","a">>], sp) :
                p \in 1..n, g \in GroupTexts, sp \in [1..(n - 1) -> Separators] } :
            n \in GroupCounts }

\* the address field holding a typed line, in a session that started with an
\* empty store and committed an empty name
ValidationInit ==
    /\ textarea \in AddressCandidates
    /\ state_machine = [state |-> "MacInput", via |-> "Next"]
    /\ items = <<>>
    /\ file = <<>>
    /\ selected = <<>>
    /\ editing_name = <<>>
    /\ editing_mac = <<>>
    /\ popup_time = <<>>
    /\ last_tick = 0
    /\ arm = ""
    /\ wol = <<>>
    /\ pc = "poll"
    /\ run = "running"
    /\ flow = NoFlow

\* Enter on the typed line
ValidationNext == MacInputCommit

ValidationSpec == ValidationInit /\ [][ValidationNext]_vars

-----------------------------------------------------------------------------
(* The vocabulary of the specification *)

\* Validation: six two-hex-digit groups separated uniformly by ':' or by '-'
is_valid_address(s) ==
    /\ Len(s) = 17
    /\ \E sep \in {":", "-"} :
          \A i \in 1..17 : IF i % 3 = 0 THEN s[i] = sep ELSE s[i] \in HexDigits

EnterKey == Key("Enter", "")

\* Input Router: the keys that are mapped to an event or an edit in a state
Routed(st, k) ==
    CASE st \in {"NameInput", "MacInput"} -> TRUE
      [] st = "Main" ->
            \/ k.code \in {"Up", "Down", "Enter"}
            \/ k.code = "Char" /\ k.c \in {"a", "d", "q"}
      [] st \in {"ConfirmAdd", "ConfirmDelete"} ->
            \/ k.code = "Esc"
            \/ k.code = "Char" /\ k.c \in {"Y", "n", "N"}
      [] OTHER -> FALSE

\* the loop reads the press of key k in this step
Reads(k) == KeyPress(k)

-----------------------------------------------------------------------------
(* Claims *)

\* C1: Enter in MacInput on a buffer that is not a valid address leaves the
\* state MacInput and the edit buffer as it was.
C1_InvalidCommitRetained ==
    [][ (Reads(EnterKey) /\ state_machine.state = "MacInput"
            /\ ~is_valid_address(textarea))
        => (state_machine'.state = "MacInput" /\ textarea' = textarea) ]_vars

\* C2: Enter in MacInput on a buffer that is not a valid address leaves the
\* pending address (editing_mac) as it was.
C2_InvalidCommitKeepsPendingAddress ==
    [][ (Reads(EnterKey) /\ state_machine.state = "MacInput"
            /\ ~is_valid_address(textarea))
        => editing_mac' = editing_mac ]_vars

\* C3: starting from a store of valid addresses, every entry of the store has
\* an address that satisfies the Validation predicate.
C3_StoreAddressesValid ==
    \A i \in 1..Len(items) : is_valid_address(items[i][2])

\* C4: the cursor is unset when the store is empty and a valid index when it
\* is not.
C4_CursorInvariant ==
    IF items = <<>> THEN selected = <<>>
    ELSE selected # <<>> /\ selected[1] >= 0 /\ selected[1] < Len(items)

\* C5: after Confirmed in ConfirmDelete the cursor is the new last row when the
\* last of two or more rows was deleted, is unset when the only row was
\* deleted, and is never an index at or past the new length.
C5_DeleteClampsCursor ==
    [][ (Reads(Key("Char", "Y")) /\ state_machine.state = "ConfirmDelete")
        => /\ Len(items') = Len(items) - 1
           /\ (Len(items) = 1 => selected' = <<>>)
           /\ (Len(items) >= 2 /\ selected = <<Len(items) - 1>>
                  => selected' = <<Len(items) - 2>>)
           /\ (selected' # <<>> => selected'[1] < Len(items')) ]_vars

\* C6: Confirmed at the end of an add flow started in Main with store L, with
\* name n and address a committed in that flow, ends in Main with the store
\* L followed by (n, a), and the persisted store equal to it.
C6_AddFlowAppends ==
    [][ (Reads(Key("Char", "Y")) /\ state_machine.state = "ConfirmAdd")
        => /\ state_machine'.state = "Main"
           /\ items' = flow.L \o << <<flow.name, flow.mac>> >>
           /\ file' = items' ]_vars

\* a flow that followed a declined or cancelled one has appended the name and
\* address it committed to a store that was not empty
C6_Witness ==
    /\ state_machine = [state |-> "Main", via |-> "Next"]
    /\ arm = "ConfirmAddYes"
    /\ Len(items) = 2
    /\ items[2] = << <<"q">>, MacMixed >>
    /\ file = items

\* C7: a key that the Input Router does not map in the current state leaves the
\* state, the store, the cursor, the edit buffer, the pending snapshot and the
\* timer token unchanged.
C7_UnmappedKeyIsNoOp ==
    [][ \A k \in Keys :
          (Reads(k) /\ ~Routed(state_machine.state, k))
          => UNCHANGED <<state_machine, items, file, selected, textarea,
                         editing_name, editing_mac, popup_time>> ]_vars

\* a key pressed in ConfirmAdd was matched by no arm
C7_Witness ==
    /\ state_machine.state = "ConfirmAdd"
    /\ arm = "KeyIgnored"
    /\ editing_mac = Mac1

\* C8: Enter in Main with a cursor selected dispatches exactly one signal, to
\* the address of the entry at the cursor, arms the timer token and moves to
\* SendPop; a signal is dispatched by no other step.
C8_SendDispatchesOnce ==
    [][ /\ (Reads(EnterKey) /\ IsMain(state_machine) /\ selected # <<>>)
           => /\ selected[1] < Len(items)
              /\ wol' = << items[selected[1] + 1][2] >>
              /\ popup_time' = <<0>>
              /\ state_machine'.state = "SendPop"
        /\ (wol' # wol /\ wol' # <<>>)
           => (Reads(EnterKey) /\ IsMain(state_machine) /\ wol = <<>>) ]_vars

\* C9: a tick in SendPop moves to Main and clears the timer token when at least
\* one second has passed since the token was armed (exactly one second
\* included), and leaves SendPop and the token alone otherwise.
C9_TickAfterOneSecond ==
    [][ (pc = "tick" /\ pc' = "poll" /\ tick_due
            /\ state_machine.state = "SendPop" /\ popup_time # <<>>)
        => IF popup_time[1] >= PopupDuration
           THEN state_machine'.state = "Main" /\ popup_time' = <<>>
           ELSE state_machine' = state_machine /\ popup_time' = popup_time ]_vars

\* C10: from SendPop the session eventually is in Main with the timer token
\* cleared, whatever keys are pressed.
C10_SendPopLeadsToMain ==
    /\ (state_machine.state = "SendPop")
          ~> (state_machine.state = "Main" /\ popup_time = <<>>)
    /\ [][ state_machine.state = "SendPop"
             => /\ state_machine'.state \in {"SendPop", "Main"}
                /\ run' = "running" ]_vars

\* a key was pressed while the notification was shown
C10_Witness ==
    /\ state_machine.state = "SendPop"
    /\ arm = "KeyIgnored"
    /\ popup_time # <<>>
    /\ popup_time[1] > 0

\* C11: after Confirmed and after Declined in ConfirmAdd the pending name and
\* the pending address (editing_name, editing_mac) are both empty, and they
\* are empty in every Main state.
C11_PendingSnapshotCleared ==
    /\ [][ (\E k \in Keys : Reads(k) /\ state_machine.state = "ConfirmAdd"
                               /\ Routed("ConfirmAdd", k))
           => (editing_name' = <<>> /\ editing_mac' = <<>>) ]_vars
    /\ [](state_machine.state = "Main"
             => (editing_name = <<>> /\ editing_mac = <<>>))

\* C12: the edit buffer (textarea) is empty in every state that is not
\* NameInput or MacInput; it is empty after every step that leaves NameInput or
\* MacInput and after every step that enters NameInput.
C12_EditBufferEmptyOutsideInput ==
    /\ [](state_machine.state \notin {"NameInput", "MacInput"} => textarea = <<>>)
    /\ [][ (/\ state_machine'.state # state_machine.state
            /\ \/ state_machine.state \in {"NameInput", "MacInput"}
               \/ state_machine'.state = "NameInput")
           => textarea' = <<>> ]_vars

\* Enter on a matching address has just left MacInput: the buffer that held
\* the address is empty
C12_Witness ==
    /\ state_machine.state = "ConfirmAdd"
    /\ arm = "MacInputEnter"
    /\ editing_mac = Mac1
    /\ textarea = <<>>

\* C13: when the save fails during an add or a delete, the in-memory store is
\* the store before the operation and equals the persisted store.
C13_SaveFailureRollsBack ==
    [][ SaveFails => (items' = items /\ items' = file') ]_vars

\* C14: when the dispatch fails on Enter in Main, the state and the timer token
\* are as they were and the session keeps running.
C14_DispatchFailureKeepsSession ==
    [][ SendFails => /\ state_machine' = state_machine
                     /\ popup_time' = popup_time
                     /\ run' = "running" ]_vars

\* C15: the line committed with Enter in MacInput is accepted exactly when it
\* is six groups of two hex digits separated uniformly by ':' or uniformly by
\* '-'; mixed separators, another number of groups and non-hex digits are
\* rejected.
C15_AcceptsExactlyUniformAddresses ==
    arm = "MacInputEnter"
        => (state_machine.state = "ConfirmAdd" <=> is_valid_address(editing_mac))

\* C16: 'd' and Enter in Main with no row selected leave the state Main,
\* dispatch no signal, leave the timer token unset and the store as it was;
\* a step enters ConfirmDelete or SendPop only with a row selected.
C16_NoCursorRejects ==
    [][ /\ \A k \in {Key("Char", "d"), EnterKey} :
              (Reads(k) /\ state_machine.state = "Main" /\ selected = <<>>)
              => /\ state_machine'.state = "Main"
                 /\ wol' = <<>>
                 /\ popup_time' = <<>>
                 /\ items' = items
                 /\ file' = file
        /\ (/\ state_machine'.state \in {"ConfirmDelete", "SendPop"}
            /\ state_machine'.state # state_machine.state)
           => (selected # <<>> /\ selected' # <<>>) ]_vars

\* 'd' was pressed in Main on a store that has an entry but no selected row
C16_Witness ==
    /\ state_machine.state = "Main"
    /\ arm = "MainDelete"
    /\ selected = <<>>
    /\ items # <<>>

\* C17: the session ends only in a step that reads 'q' in Main; 'q' read in
\* any other state leaves the session running, and in NameInput and MacInput
\* it is appended to the edit buffer.
C17_QuitInMainIsSoleTermination ==
    [][ /\ (run = "running" /\ run' # "running")
           => (Reads(Key("Char", "q")) /\ state_machine.state = "Main")
        /\ (Reads(Key("Char", "q")) /\ state_machine.state # "Main")
           => /\ run' = "running"
              /\ state_machine.state \in {"NameInput", "MacInput"}
                    => textarea' = Append(textarea, "q") ]_vars

\* C18: the store and the persisted store change only in a step that reads 'Y'
\* in ConfirmAdd, which appends one entry, or 'Y' in ConfirmDelete, which
\* removes one entry; every other step leaves both as they were.
C18_StoreChangesOnlyOnConfirm ==
    [][ /\ (items' # items \/ file' # file)
           => /\ Reads(Key("Char", "Y"))
              /\ state_machine.state \in {"ConfirmAdd", "ConfirmDelete"}
        /\ (Reads(Key("Char", "Y")) /\ state_machine.state = "ConfirmAdd")
           => /\ Len(items') = Len(items) + 1
              /\ SubSeq(items', 1, Len(items)) = items
              /\ file' = items'
        /\ (Reads(Key("Char", "Y")) /\ state_machine.state = "ConfirmDelete")
           => /\ Len(items') = Len(items) - 1
              /\ file' = items' ]_vars

\* 'Y' in ConfirmDelete has removed the first of two entries
C18_Witness ==
    /\ state_machine.state = "Main"
    /\ arm = "ConfirmDeleteYes"
    /\ items = <<Entry2>>
    /\ file = items

\* C19: a step into or within ConfirmDelete leaves the cursor and the store as
\* they were, and 'Y' in ConfirmDelete removes the entry at the cursor as it
\* was before the step: the other entries stay, in their order.
C19_DeleteRemovesHighlighted ==
    [][ /\ state_machine'.state = "ConfirmDelete"
           => (selected' = selected /\ items' = items)
        /\ (Reads(Key("Char", "Y")) /\ state_machine.state = "ConfirmDelete")
           => /\ selected # <<>>
              /\ selected[1] < Len(items)
              /\ Len(items') = Len(items) - 1
              /\ \A i \in 1..Len(items') :
                    items'[i] = IF i <= selected[1] THEN items[i] ELSE items[i + 1]
              /\ file' = items' ]_vars

\* 'Y' in ConfirmDelete has removed the second of two entries, the cursor
\* having been on it
C19_Witness ==
    /\ state_machine.state = "Main"
    /\ arm = "ConfirmDeleteYes"
    /\ items = <<Entry1>>
    /\ selected = <<0>>
    /\ file = items

\* C20: in ConfirmDelete and in SendPop the store is not empty and the cursor
\* is set to an index below the length of the store.
C20_CursorInRangeInConfirmDeleteAndSendPop ==
    state_machine.state \in {"ConfirmDelete", "SendPop"}
        => /\ items # <<>>
           /\ selected # <<>>
           /\ selected[1] < Len(items)

\* the arms of the match that can return a transition
TransitionArms ==
    {"NameInputEnter", "NameInputEsc", "MacInputEnter", "MacInputEsc", "MainEnter",
     "MainAdd", "MainDelete", "ConfirmAddYes", "ConfirmAddNo", "ConfirmDeleteYes",
     "ConfirmDeleteNo"}

\* C21: the tick check at the end of an iteration changes the state only when
\* the key read in that iteration took no arm that can make a transition, and a
\* key is read only at the start of an iteration, when the store is persisted
\* and the dispatch of the iteration before is over.
C21_OneTransitionPerIteration ==
    [][ /\ (pc = "tick" /\ pc' = "poll" /\ state_machine' # state_machine)
           => arm \notin TransitionArms
        /\ (\E k \in Keys : Reads(k))
           => (pc = "poll" /\ file = items /\ wol = <<>>) ]_vars
====
